---- MODULE Spec2Model ----
(***************************************************************************)
(* A model of the Sangfor SCP Open-API client (src/client.py): the request *)
(* signer _EC2RequestAuth, SangforSDKClient.send_request, the pagination   *)
(* loop of get_all_vms with its single-slot cache, find_vm's routing, the  *)
(* per-VM lookups and the fold of generate_infrastructure_report.          *)
(*                                                                         *)
(* Strings the code splits or tests for emptiness are sequences of         *)
(* one-character strings; an optional string is a record [none, s].        *)
(* JSON bodies are abstracted to the shapes the code's tests tell apart.   *)
(***************************************************************************)
EXTENDS Integers, Sequences, FiniteSets, TLC

VARIABLES
    cache,         \* self._all_vms_cache: [set, vms]; set = FALSE is None
    pc,            \* "idle", or "scan" inside the while loop of get_all_vms
    caller,        \* the operation running the scan: [op, ident]
    all_vms,       \* get_all_vms local all_vms
    current_page,  \* get_all_vms local current_page
    served,        \* server side: the pages the backend has answered in this scan
    reqs,          \* requests issued by the current (or last completed) operation
    lap,           \* parity of the page requests beyond the tracking horizon MaxReq
    fleet,         \* server side: the VM records the backend holds, page by page
    last,          \* the last send_request: [has, outcome, ret]
    result,        \* what the last completed operation returned or raised
    sreqA, sreqB,  \* signer: two prepared requests
    sclock,        \* signer: the UTC time read by datetime.now
    shdrA, shdrB   \* signer: the headers __call__ left on each request

vars == <<cache, pc, caller, all_vms, current_page, served, reqs, lap, fleet,
          last, result, sreqA, sreqB, sclock, shdrA, shdrB>>

clientVars == <<cache, pc, caller, all_vms, current_page, served, reqs, lap,
                fleet, last, result>>

signVars == <<sreqA, sreqB, sclock, shdrA, shdrB>>

-----------------------------------------------------------------------------
(* Bounds of the model. *)

\* Number of distinct pages the backend holds (page numbers 0 .. NumPages-1).
NumPages == 4

\* Page requests of one scan that are tracked in full; a scan that needs more
\* has revisited a page and only the parity of further requests is kept.
MaxReq == NumPages + 2

-----------------------------------------------------------------------------
(* Optional strings. *)

NoneStr == [none |-> TRUE, s |-> <<>>]

Str(s) == [none |-> FALSE, s |-> s]

\* Python truthiness of an optional string: None and "" are falsy.
FalsyStr(x) == x.none \/ x.s = <<>>

RECURSIVE SplitFrom(_, _, _)
\* str.split(sep) on s, cur being the segment collected so far.
SplitFrom(s, sep, cur) ==
    IF s = <<>> THEN <<cur>>
    ELSE IF Head(s) = sep THEN <<cur>> \o SplitFrom(Tail(s), sep, <<>>)
    ELSE SplitFrom(Tail(s), sep, Append(cur, Head(s)))

Split(s, sep) == SplitFrom(s, sep, <<>>)

-----------------------------------------------------------------------------
(* JSON bodies, by the shapes the client's tests tell apart.               *)
(*   "null"     JSON null (Python None)                                    *)
(*   "empty"    a falsy value other than null: {} or []                    *)
(*   "scalar"   a truthy value that is no object: a string, a list         *)
(*   "nokey"    an object without a 'data' key (an error body)             *)
(*   "nulldata" an object whose 'data' is null                             *)
(*   "baddata"  an object whose 'data' is truthy and no object             *)
(*   "notlist"  an object whose 'data' is an object without a 'data' list  *)
(*   "page"     {'data': {'data': [...], 'next_page_num': tok}}            *)

MalformedShapes ==
    {"null", "empty", "scalar", "nokey", "nulldata", "baddata", "notlist"}

\* The value of 'next_page_num': absent, a number, a digit string, or a
\* string that is no number.
NoTok == [kind |-> "none", n |-> 0]

IntTok(n) == [kind |-> "int", n |-> n]

StrTok(n) == [kind |-> "str", n |-> n]

JunkTok == [kind |-> "junk", n |-> 0]

Body(shape) == [shape |-> shape, recs |-> <<>>, tok |-> NoTok]

PageBody(recs, tok) == [shape |-> "page", recs |-> recs, tok |-> tok]

JNull == Body("null")

-----------------------------------------------------------------------------
(* The transport: what session.request produced for one request.           *)
(*   net   "connfail" (no response), "ok" (2xx) or "httperr" (4xx/5xx)     *)
(*   json  whether the response text decodes as JSON                       *)
(*   body  the decoded value when json                                     *)
(*   derr  the exception class response.json() raises when not json        *)

ConnFail == [net |-> "connfail", json |-> FALSE, body |-> JNull, derr |-> ""]

Answer(net, body) == [net |-> net, json |-> TRUE, body |-> body, derr |-> ""]

NonJson(net, derr) == [net |-> net, json |-> FALSE, body |-> JNull, derr |-> derr]

\* The exception class response.json() raises on undecodable text:
\* requests.exceptions.JSONDecodeError (requests >= 2.27, a RequestException
\* and a json.JSONDecodeError) or the plain json.JSONDecodeError before.
DecodeErrors == {"RequestsJSONDecodeError", "JSONDecodeError"}

\* Every transport outcome without a decodable body.
Failures ==
    {ConnFail} \cup {NonJson(n, e) : n \in {"ok", "httperr"}, e \in DecodeErrors}

\* issubclass(cls, base) for the exception classes the handlers name.
IsInstance(cls, base) ==
    \/ cls = base
    \/ base = "RequestException"
         /\ cls \in {"HTTPError", "ConnectionError", "RequestsJSONDecodeError"}
    \/ base = "JSONDecodeError" /\ cls = "RequestsJSONDecodeError"

\* What a call hands back: a value, or an exception leaving the call.
Ret(v) == [kind |-> "ret", val |-> v, exc |-> ""]

Raise(e) == [kind |-> "raise", val |-> JNull, exc |-> e]

\* The try block of send_request: session.request, raise_for_status, json().
TryBlock(o) ==
    IF o.net = "connfail" THEN Raise("ConnectionError")
    ELSE IF o.net = "httperr" THEN Raise("HTTPError")
    ELSE IF ~o.json THEN Raise(o.derr)
    ELSE Ret(o.body)

\* The first except clause: return e.response.json(); a decode error raised
\* here is raised inside a handler and no sibling clause catches it.
HttpErrorHandler(o) ==
    IF o.json THEN Ret(o.body) ELSE Raise(o.derr)

\* send_request(method, path, params, json_data) for transport outcome o.
SendRequest(o) ==
    LET t == TryBlock(o) IN
    IF t.kind = "ret" THEN t
    ELSE IF IsInstance(t.exc, "HTTPError") THEN HttpErrorHandler(o)
    ELSE IF IsInstance(t.exc, "RequestException") THEN Ret(JNull)
    ELSE IF IsInstance(t.exc, "JSONDecodeError") THEN Ret(JNull)
    ELSE t

-----------------------------------------------------------------------------
(* Requests as the transport sees them. *)

AzsPath == "/janus/20190725/azs"

ServersPath == "/janus/20190725/servers"

NoInt == [none |-> TRUE, n |-> 0]

Int_(n) == [none |-> FALSE, n |-> n]

\* A GET of base path `path`, with `id` and `sub` interpolated after it and
\* the query parameters page_num / page_size when given.
Get(path, id, sub, page_num, page_size) ==
    [method |-> "GET", path |-> path, id |-> id, sub |-> sub,
     page_num |-> page_num, page_size |-> page_size]

\* get_vms: page_num is sent unless None, page_size unless falsy.
GetVmsRequest(page_num, page_size) ==
    Get(ServersPath, NoneStr, "",
        page_num,
        IF page_size.none \/ page_size.n = 0 THEN NoInt ELSE page_size)

GetAzsRequest == Get(AzsPath, NoneStr, "", NoInt, NoInt)

\* get_vm_details / get_vm_snapshots / get_vm_backups: f'.../servers/{vm_id}{sub}'
VmRequest(vm_id, sub) == Get(ServersPath, vm_id, sub, NoInt, NoInt)

PAGE_SIZE == 100

-----------------------------------------------------------------------------
(* VM and zone records, and the inventories the backend serves. *)

Stat(used) == [has |-> TRUE, used |-> used]

NoStat == [has |-> FALSE, used |-> 0]

Vm(id, name, az_name, status, cores, memory_mb, disks, cpu, mem, sto) ==
    [id |-> id, name |-> name, az_name |-> az_name, status |-> status,
     cores |-> cores, memory_mb |-> memory_mb, disks |-> disks,
     cpu_status |-> cpu, memory_status |-> mem, storage_status |-> sto]

UuidIdent ==
    <<"5", "5", "0", "e", "8", "4", "0", "0", "-", "e", "2", "9", "b", "-",
      "4", "1", "d", "4", "-", "a", "7", "1", "6", "-", "4", "4", "6", "6",
      "5", "5", "4", "4", "0", "0", "0", "0">>

WebName == <<"w", "e", "b", "-", "s", "e", "r", "v", "e", "r", "-", "0", "1">>

WebNameUpper == <<"W", "e", "b", "-", "s", "e", "r", "v", "e", "r", "-", "0", "1">>

DbName == <<"d", "b">>

FiveSegName == <<"a", "-", "b", "-", "c", "-", "d", "-", "e">>

SixSegName == <<"a", "-", "b", "-", "c", "-", "d", "-", "e", "-", "f">>

NoIdName == <<"n", "-", "i">>

Az1 == Str(<<"a", "z", "1">>)

Az2 == Str(<<"a", "z", "2">>)

AzUnknown == Str(<<"z", "z">>)

V1 == Vm(Str(<<"i", "1">>), Str(WebName), Az1, Str("running"),
         2, 1536, <<524288>>, Stat(500), Stat(700), Stat(2048))

V2 == Vm(Str(<<"i", "2">>), Str(DbName), Az1, Str("stopped"),
         4, 2048, <<10240, 10240>>, NoStat, Stat(5), NoStat)

V3 == Vm(Str(<<"i", "3">>), Str(DbName), Az1, Str("paused"),
         1, 513, <<>>, Stat(7), NoStat, Stat(5))

V4 == Vm(Str(<<"i", "4">>), Str(FiveSegName), NoneStr, NoneStr,
         8, 7, <<10240>>, Stat(9), Stat(9), Stat(9))

V5 == Vm(Str(<<"i", "5">>), Str(<<"x">>), AzUnknown, Str("running"),
         2, 7, <<524288>>, Stat(3), Stat(3), Stat(3))

V6 == Vm(NoneStr, Str(NoIdName), Az2, Str("running"),
         1, 7, <<5243>>, Stat(1), Stat(5), Stat(5))

V7 == Vm(Str(<<"i", "7">>), Str(<<"y">>), Az1, NoneStr,
         1, 7, <<5243>>, Stat(1), Stat(5), Stat(5))

V8 == Vm(Str(<<"i", "8">>), Str(<<"z">>), Str(<<>>), Str("stopped"),
         2, 1536, <<524288>>, Stat(2), Stat(7), Stat(7))

DigitChars == <<"0", "1", "2", "3", "4", "5", "6", "7", "8", "9">>

\* n < 1000 written with three decimal digits.
Dec(n) ==
    << DigitChars[((n \div 100) % 10) + 1], DigitChars[((n \div 10) % 10) + 1],
       DigitChars[(n % 10) + 1] >>

\* The n-th record of the large inventory.
Numbered(n) ==
    Vm(Str(<<"n">> \o Dec(n)), Str(<<"v">> \o Dec(n)), Az1, Str("running"),
       1, 1024, <<>>, NoStat, NoStat, NoStat)

NumberedRun(from, count) == [i \in 1..count |-> Numbered(from + i - 1)]

\* Inventories: a sequence of pages, page number k at index k + 1.
FleetA == << <<V1, V2>>, <<V3>>, <<V4, V5>>, <<V6, V7>> >>

FleetB == << <<V4, V6>>, <<V8, V7>>, <<V5>>, <<V1>> >>

FleetC == << <<V5>>, <<V8>>, <<V2, V2>>, <<>> >>

\* Pages of sizes 100, 100, 37 and 0.
FleetBig ==
    << NumberedRun(1, 100), NumberedRun(101, 100), NumberedRun(201, 37), <<>> >>

FleetNames == {"A", "B", "C", "Big"}

FleetOf(name) ==
    IF name = "A" THEN FleetA
    ELSE IF name = "B" THEN FleetB
    ELSE IF name = "C" THEN FleetC
    ELSE FleetBig

\* The records the inventory named f holds for page number k.
FleetPage(f, k) == IF k < Len(FleetOf(f)) THEN FleetOf(f)[k + 1] ELSE <<>>

Zone(name) == [name |-> name]

ZoneLists ==
    { <<>>, <<Zone(Az1)>>, <<Zone(Az1), Zone(Az2)>>, <<Zone(NoneStr), Zone(Az2)>> }

-----------------------------------------------------------------------------
(* generate_infrastructure_report: the fold over the VM list.              *)
(*                                                                         *)
(* The code accumulates floats: memory_mb / 1024 and so on. For whole MB   *)
(* and MHz inputs these quotients and their sums are exact in binary       *)
(* floating point, so the model keeps each accumulator as a whole number   *)
(* of units of 1/Hundred of the divisor: x / d is the numerator Hundred*x  *)
(* over Hundred*d, and one hundredth of the result is d units.             *)

Hundred == 100

MbPerGb == 1024

MbPerTb == 1024 * 1024

\* x / d as a number of accumulator units.
Quot(x) == Hundred * x

\* round(value, 2) of an accumulator of acc units, d units to the hundredth:
\* the nearest hundredth, ties to even; the result counts hundredths.
Round2(acc, d) ==
    LET h == acc \div d
        r == acc - h * d
    IN  IF 2 * r > d THEN h + 1
        ELSE IF 2 * r < d THEN h
        ELSE IF h % 2 = 0 THEN h ELSE h + 1

ZeroStatus == [running |-> 0, stopped |-> 0, other |-> 0]

\* The zeroed overall_totals entry.
ZeroOverall ==
    [total_vms |-> 0, vms_by_status |-> ZeroStatus,
     total_provisioned |-> [cpu_cores |-> 0, memory_gb |-> 0, disk_tb |-> 0],
     total_used |-> [cpu_mhz |-> 0, memory_gb |-> 0, disk_gb |-> 0]]

\* The zeroed by_availability_zone entry.
ZeroZone ==
    [total_vms |-> 0, vms_by_status |-> ZeroStatus,
     total_provisioned |-> [cpu_cores |-> 0, ram_gb |-> 0, disk_tb |-> 0],
     total_used |-> [cpu_mhz |-> 0, ram_gb |-> 0, disk_gb |-> 0]]

\* The zone names that get an entry: every truthy az.get('name').
ZoneNames(az_list) ==
    { az_list[i].name.s : i \in { j \in 1..Len(az_list) : ~FalsyStr(az_list[j].name) } }

EmptyReport(az_list) ==
    [overall_totals |-> ZeroOverall,
     by_availability_zone |-> [n \in ZoneNames(az_list) |-> ZeroZone]]

\* status = vm.get('status', 'other'); anything but running/stopped is other.
StatusBucket(vm) ==
    IF ~vm.status.none /\ vm.status.s \in {"running", "stopped"}
    THEN vm.status.s ELSE "other"

RECURSIVE SumSeq(_)
SumSeq(s) == IF s = <<>> THEN 0 ELSE Head(s) + SumSeq(Tail(s))

\* The VM is skipped: not az_name or az_name not in report['by_availability_zone'].
Skipped(vm, report) ==
    FalsyStr(vm.az_name) \/ vm.az_name.s \notin DOMAIN report.by_availability_zone

\* Faulty variant: `total += round(x / d, 2)`.
AccumulateRounded(total, x, d) == total + Round2(Quot(x), d) * d

\* One accumulation `total += x / d`, at full precision.
Accumulate(total, x, d) == total + Quot(x)

UsedOf(st) == IF st.has THEN st.used ELSE 0

\* The body of `for vm in all_vms` for one VM that is not skipped.
CountVm(report, vm) ==
    LET status == StatusBucket(vm)
        disk   == SumSeq(vm.disks)
        o      == report.overall_totals
        z      == report.by_availability_zone[vm.az_name.s]
        o2 == [total_vms |-> o.total_vms + 1,
               vms_by_status |->
                   [o.vms_by_status EXCEPT ![status] = @ + 1],
               total_provisioned |->
                   [cpu_cores |-> o.total_provisioned.cpu_cores + vm.cores,
                    memory_gb |-> Accumulate(o.total_provisioned.memory_gb, vm.memory_mb, MbPerGb),
                    disk_tb   |-> Accumulate(o.total_provisioned.disk_tb, disk, MbPerTb)],
               total_used |->
                   [cpu_mhz   |-> Accumulate(o.total_used.cpu_mhz, UsedOf(vm.cpu_status), 1),
                    memory_gb |-> Accumulate(o.total_used.memory_gb, UsedOf(vm.memory_status), MbPerGb),
                    disk_gb   |-> Accumulate(o.total_used.disk_gb, UsedOf(vm.storage_status), MbPerGb)]]
        z2 == [total_vms |-> z.total_vms + 1,
               vms_by_status |->
                   [z.vms_by_status EXCEPT ![status] = @ + 1],
               total_provisioned |->
                   [cpu_cores |-> z.total_provisioned.cpu_cores + vm.cores,
                    ram_gb    |-> Accumulate(z.total_provisioned.ram_gb, vm.memory_mb, MbPerGb),
                    disk_tb   |-> Accumulate(z.total_provisioned.disk_tb, disk, MbPerTb)],
               total_used |->
                   [cpu_mhz |-> Accumulate(z.total_used.cpu_mhz, UsedOf(vm.cpu_status), 1),
                    ram_gb  |-> Accumulate(z.total_used.ram_gb, UsedOf(vm.memory_status), MbPerGb),
                    disk_gb |-> Accumulate(z.total_used.disk_gb, UsedOf(vm.storage_status), MbPerGb)]]
    IN  [overall_totals |-> o2,
         by_availability_zone |->
             [report.by_availability_zone EXCEPT ![vm.az_name.s] = z2]]

\* Faulty variant: a skipped VM still counts in the overall total.
FoldVmCountAll(report, vm) ==
    IF Skipped(vm, report)
    THEN [report EXCEPT !.overall_totals.total_vms = @ + 1]
    ELSE CountVm(report, vm)

FoldVm(report, vm) == IF Skipped(vm, report) THEN report ELSE CountVm(report, vm)

RECURSIVE FoldRange(_, _, _, _)
\* `for vm in all_vms` over vms[lo..hi], in list order (the range is halved
\* to keep the evaluation shallow; the VMs are still folded left to right).
FoldRange(report, vms, lo, hi) ==
    IF lo > hi THEN report
    ELSE IF lo = hi THEN FoldVm(report, vms[lo])
    ELSE LET mid  == (lo + hi) \div 2
             left == FoldRange(report, vms, lo, mid)
         IN  \* the test only makes the left half be computed first
             IF left.overall_totals.total_vms >= 0
             THEN FoldRange(left, vms, mid + 1, hi)
             ELSE left

FoldVms(report, vms) == FoldRange(report, vms, 1, Len(vms))

\* The final pass: round every total_provisioned / total_used value.
\* cpu_cores is an int and round leaves it one.
RoundOverall(o) ==
    [o EXCEPT
       !.total_provisioned =
           [cpu_cores |-> @.cpu_cores,
            memory_gb |-> Round2(@.memory_gb, MbPerGb),
            disk_tb   |-> Round2(@.disk_tb, MbPerTb)],
       !.total_used =
           [cpu_mhz   |-> Round2(@.cpu_mhz, 1),
            memory_gb |-> Round2(@.memory_gb, MbPerGb),
            disk_gb   |-> Round2(@.disk_gb, MbPerGb)]]

RoundZone(z) ==
    [z EXCEPT
       !.total_provisioned =
           [cpu_cores |-> @.cpu_cores,
            ram_gb    |-> Round2(@.ram_gb, MbPerGb),
            disk_tb   |-> Round2(@.disk_tb, MbPerTb)],
       !.total_used =
           [cpu_mhz |-> Round2(@.cpu_mhz, 1),
            ram_gb  |-> Round2(@.ram_gb, MbPerGb),
            disk_gb |-> Round2(@.disk_gb, MbPerGb)]]

Finalize(report) ==
    [overall_totals |-> RoundOverall(report.overall_totals),
     by_availability_zone |->
         [n \in DOMAIN report.by_availability_zone |->
             RoundZone(report.by_availability_zone[n])]]

\* The report built from a non-empty VM list and the fetched zone list.
BuildReport(vms, az_list) == Finalize(FoldVms(EmptyReport(az_list), vms))

-----------------------------------------------------------------------------
(* What the backend may answer. *)

\* 'next_page_num' values page k may carry: none, a non-number, its own
\* number, the first page as a digit string, the following page.
PageTokens(k) ==
    {NoTok, JunkTok, IntTok(k), StrTok(0)}
        \cup (IF k + 1 < NumPages THEN {IntTok(k + 1)} ELSE {})

PageBodies(f, k) ==
    {Body(sh) : sh \in MalformedShapes}
        \cup {PageBody(r, t) : r \in {<<>>, FleetPage(f, k)}, t \in PageTokens(k)}

\* Transport outcomes of GET /servers?page_num=k against the inventory f.
PageOutcomes(f, k) ==
    Failures
        \cup {Answer("ok", b) : b \in PageBodies(f, k)}
        \cup {Answer("httperr", Body(sh)) : sh \in {"nokey", "scalar"}}

\* Transport outcomes of GET /azs.
ZoneOutcomes ==
    Failures
        \cup {Answer("httperr", Body("nokey"))}
        \cup {Answer("ok", Body(sh)) : sh \in {"scalar", "nulldata", "notlist"}}
        \cup {Answer("ok", PageBody(zl, NoTok)) : zl \in ZoneLists}

\* Transport outcomes of the per-VM GETs and of a lone get_vms.
DetailOutcomes ==
    Failures
        \cup {Answer(n, Body(sh)) : n \in {"ok", "httperr"}, sh \in {"nokey", "null"}}

-----------------------------------------------------------------------------
(* Calls. *)

NoLast == [has |-> FALSE, outcome |-> ConnFail, ret |-> Ret(JNull)]

\* The last send_request: its transport outcome and what it handed back.
Sent(o, r) == [has |-> TRUE, outcome |-> o, ret |-> r]

\* A method up to its send_request: it either sends rq and returns what
\* send_request returns, or ends at once with ret.
Sends(rq) == [send |-> TRUE, rq |-> rq, ret |-> Ret(JNull)]

Ends(ret) == [send |-> FALSE, rq |-> GetAzsRequest, ret |-> ret]

\* Faulty variant: `if vm_id is None`, which lets the empty string through.
RequireVmIdNotNone(vm_id) == ~vm_id.none

\* if not vm_id: raise ValueError("A vm_id is required.")
RequireVmId(vm_id) == ~FalsyStr(vm_id)

\* get_vm_details, get_vm_snapshots (sub "/snapshots"), get_vm_backups.
VmCall(vm_id, sub) ==
    IF RequireVmId(vm_id) THEN Sends(VmRequest(vm_id, sub))
    ELSE Ends(Raise("ValueError"))

\* Faulty variant: five hyphens, that is six segments.
IsUuidHyphens(identifier) == Len(Split(identifier, "-")) = 6

\* is_uuid = len(identifier.split('-')) == 5
IsUuid(identifier) == Len(Split(identifier, "-")) = 5

\* vm.get('name') == identifier
NameIs(vm, identifier) == ~vm.name.none /\ vm.name.s = identifier

\* next((vm for vm in vm_list if vm.get('name') == identifier), None), as
\* the index of the first match, 0 when there is none.
FirstMatch(vm_list, identifier) ==
    LET hits == {i \in 1..Len(vm_list) : NameIs(vm_list[i], identifier)}
    IN  IF hits = {} THEN 0 ELSE CHOOSE i \in hits : \A j \in hits : i <= j

\* find_vm after vm_list = self.get_all_vms().
FindByName(vm_list, identifier) ==
    LET i == FirstMatch(vm_list, identifier) IN
    IF i = 0 THEN Ends(Ret(JNull)) ELSE VmCall(vm_list[i].id, "")

-----------------------------------------------------------------------------
(* get_all_vms: one pass of the while loop. *)

\* response and response.get('data') and
\* isinstance(response['data'].get('data'), list): "page" when it holds,
\* "break" when it is falsy, "raise" when a .get has no object to act on.
PageGuard(v) ==
    IF v.shape \in {"null", "empty"} THEN "break"
    ELSE IF v.shape = "scalar" THEN "raise"
    ELSE IF v.shape \in {"nokey", "nulldata"} THEN "break"
    ELSE IF v.shape = "baddata" THEN "raise"
    ELSE IF v.shape = "notlist" THEN "break"
    ELSE "page"

\* Faulty variant: the page is put in front of the list.
ExtendPrepend(all, recs) == recs \o all

\* all_vms.extend(vms_on_this_page)
Extend(all, recs) == all \o recs

\* not next_page_info or not vms_on_this_page
StopAfter(tok, recs) ==
    tok.kind = "none" \/ (tok.kind = "int" /\ tok.n = 0) \/ recs = <<>>

Iter(next, all, page, exc) ==
    [next |-> next, all_vms |-> all, page |-> page, exc |-> exc]

\* The loop body for the value r that get_vms handed back.
LoopBody(all, page, r) ==
    IF r.kind = "raise" THEN Iter("raise", all, page, r.exc)
    ELSE LET g == PageGuard(r.val) IN
         IF g = "raise" THEN Iter("raise", all, page, "AttributeError")
         ELSE IF g = "break" THEN Iter("done", all, page, "")
         ELSE LET ext == Extend(all, r.val.recs) IN
              IF StopAfter(r.val.tok, r.val.recs) THEN Iter("done", ext, page, "")
              ELSE IF r.val.tok.kind = "junk"
                   THEN Iter("raise", ext, page, "ValueError")
              ELSE Iter("continue", ext, r.val.tok.n, "")

\* Faulty variant: `if use_cache and self._all_vms_cache`, which takes a
\* cached empty list for no cache.
CacheHitTruthy(use_cache, c) == use_cache /\ c.set /\ c.vms # <<>>

\* if use_cache and self._all_vms_cache is not None
CacheHit(use_cache, c) == use_cache /\ c.set

NoCache == [set |-> FALSE, vms |-> <<>>]

\* self._all_vms_cache = all_vms
Cached(vms) == [set |-> TRUE, vms |-> vms]

-----------------------------------------------------------------------------
(* generate_infrastructure_report after the scan. *)

\* az_response.get('data', {}).get('data', []) if az_response else []:
\* "raise" when a .get has no object to act on.
AzListKind(v) ==
    IF v.shape \in {"null", "empty"} THEN "list"
    ELSE IF v.shape \in {"scalar", "nulldata", "baddata"} THEN "raise"
    ELSE "list"

AzList(v) == IF v.shape = "page" THEN v.recs ELSE <<>>

NoReport == EmptyReport(<<>>)

\* Results of operations: op and its arguments, and what came back.
\*   kind    "init", "pending", "list", "json", "report", "novms" or "raise"
\*   cached  the operation took the VM list from the cache
Result(op, arg, use_cache, cached, kind, vms, val, exc, report) ==
    [op |-> op, arg |-> arg, use_cache |-> use_cache, cached |-> cached,
     kind |-> kind, vms |-> vms, val |-> val, exc |-> exc, report |-> report]

Pending(op, arg, use_cache, cached) ==
    Result(op, arg, use_cache, cached, "pending", <<>>, JNull, "", NoReport)

\* The pending operation res ends with what ret says.
OfRet(res, ret) ==
    IF ret.kind = "raise"
    THEN [res EXCEPT !.kind = "raise", !.exc = ret.exc]
    ELSE [res EXCEPT !.kind = "json", !.val = ret.val]

\* generate_infrastructure_report from the return r of
\* get_availability_zones on.
ReportTail(res, vms, r) ==
    IF r.kind = "raise" THEN OfRet(res, r)
    ELSE IF AzListKind(r.val) = "raise" THEN OfRet(res, Raise("AttributeError"))
    ELSE IF vms = <<>> THEN [res EXCEPT !.kind = "novms"]
    ELSE [res EXCEPT !.kind = "report", !.report = BuildReport(vms, AzList(r.val))]

-----------------------------------------------------------------------------
(* The client as a state machine. A public method is an action up to the   *)
(* request it sends; Respond is the arrival of the answer and the rest of  *)
(* the method. A method that runs the pagination loop enters it in one     *)
(* step; each pass of the loop, with its page request and the answer, is   *)
(* one ScanStep, and the pass that leaves the loop runs the method on to   *)
(* its next request or its end.                                            *)

VmIds == {NoneStr, Str(<<>>), Str(<<"i", "1">>)}

Identifiers ==
    {UuidIdent, WebName, WebNameUpper, DbName, FiveSegName, SixSegName,
     NoIdName, <<>>}

OptInts == {NoInt, Int_(0), Int_(2)}

NoSign == [set |-> FALSE]

\* The signer's observation variables, unused while the client is observed.
SignIdle ==
    /\ sreqA = NoSign /\ sreqB = NoSign /\ sclock = 0
    /\ shdrA = NoSign /\ shdrB = NoSign

Init ==
    /\ cache = NoCache
    /\ pc = "idle"
    /\ caller = "none"
    /\ all_vms = <<>>
    /\ current_page = 0
    /\ served = <<>>
    /\ reqs = <<>>
    /\ lap = FALSE
    /\ fleet \in FleetNames
    /\ last = NoLast
    /\ result = Result("none", NoneStr, FALSE, FALSE, "init", <<>>, JNull, "", NoReport)
    /\ SignIdle

\* The operation ends with result res, having issued the requests rq.
Finish(res, rq, lst) ==
    /\ result' = res
    /\ reqs' = rq
    /\ last' = lst
    /\ pc' = "idle"
    /\ caller' = "none"
    /\ all_vms' = <<>>
    /\ current_page' = 0
    /\ lap' = FALSE

\* The operation sends rq and waits for the answer.
Await(res, rq, lst, vms) ==
    /\ result' = res
    /\ reqs' = rq
    /\ last' = lst
    /\ pc' = "wait"
    /\ caller' = res.op
    /\ all_vms' = vms
    /\ current_page' = 0
    /\ lap' = FALSE

\* The operation goes on as call says, after the requests rq.
Proceed(res, call, rq, lst) ==
    IF call.send THEN Await(res, Append(rq, call.rq), lst, <<>>)
    ELSE Finish(OfRet(res, call.ret), rq, lst)

\* all_vms = []; current_page = 0; and into the while loop.
EnterScan(op, arg, use_cache) ==
    /\ pc' = "scan"
    /\ caller' = op
    /\ all_vms' = <<>>
    /\ current_page' = 0
    /\ served' = <<>>
    /\ reqs' = <<>>
    /\ lap' = FALSE
    /\ last' = NoLast
    /\ result' = Pending(op, arg, use_cache, FALSE)
    /\ UNCHANGED <<cache, fleet>>
    /\ UNCHANGED signVars

GetAvailabilityZones ==
    /\ pc = "idle"
    /\ Proceed(Pending("get_availability_zones", NoneStr, FALSE, FALSE),
               Sends(GetAzsRequest), <<>>, NoLast)
    /\ served' = <<>>
    /\ UNCHANGED <<cache, fleet>>
    /\ UNCHANGED signVars

GetVms(page_num, page_size) ==
    /\ pc = "idle"
    /\ Proceed(Pending("get_vms", NoneStr, FALSE, FALSE),
               Sends(GetVmsRequest(page_num, page_size)), <<>>, NoLast)
    /\ served' = <<>>
    /\ UNCHANGED <<cache, fleet>>
    /\ UNCHANGED signVars

GetAllVms(use_cache) ==
    /\ pc = "idle"
    /\ IF CacheHit(use_cache, cache)
       THEN /\ Finish(Result("get_all_vms", NoneStr, use_cache, TRUE, "list",
                             cache.vms, JNull, "", NoReport), <<>>, NoLast)
            /\ served' = <<>>
            /\ UNCHANGED <<cache, fleet>>
            /\ UNCHANGED signVars
       ELSE EnterScan("get_all_vms", NoneStr, use_cache)

VmOp(op, sub, vm_id) ==
    /\ pc = "idle"
    /\ Proceed(Pending(op, vm_id, FALSE, FALSE), VmCall(vm_id, sub), <<>>, NoLast)
    /\ served' = <<>>
    /\ UNCHANGED <<cache, fleet>>
    /\ UNCHANGED signVars

GetVmDetails(vm_id) == VmOp("get_vm_details", "", vm_id)

GetVmSnapshots(vm_id) == VmOp("get_vm_snapshots", "/snapshots", vm_id)

GetVmBackups(vm_id) == VmOp("get_vm_backups", "/backups", vm_id)

FindVm(identifier) ==
    /\ pc = "idle"
    /\ IF IsUuid(identifier)
       THEN /\ Proceed(Pending("find_vm", Str(identifier), TRUE, FALSE),
                       VmCall(Str(identifier), ""), <<>>, NoLast)
            /\ served' = <<>>
            /\ UNCHANGED <<cache, fleet>>
            /\ UNCHANGED signVars
       ELSE IF CacheHit(TRUE, cache)
       THEN /\ Proceed(Pending("find_vm", Str(identifier), TRUE, TRUE),
                       FindByName(cache.vms, identifier), <<>>, NoLast)
            /\ served' = <<>>
            /\ UNCHANGED <<cache, fleet>>
            /\ UNCHANGED signVars
       ELSE EnterScan("find_vm", Str(identifier), TRUE)

GenerateInfrastructureReport ==
    /\ pc = "idle"
    /\ EnterScan("report", NoneStr, FALSE)

\* The answer to the request in flight arrives and the method runs to its end.
Respond ==
    /\ pc = "wait"
    /\ \E o \in (IF caller \in {"report", "get_availability_zones"}
                 THEN ZoneOutcomes ELSE DetailOutcomes) :
         LET r == SendRequest(o) IN
         Finish(IF caller = "report" THEN ReportTail(result, all_vms, r)
                ELSE OfRet(result, r),
                reqs, Sent(o, r))
    /\ UNCHANGED <<cache, fleet, served>>
    /\ UNCHANGED signVars

\* The requests and the list a pass adds are kept while the scan is within
\* the tracking horizon.
Tracked == Len(reqs) < MaxReq

\* The scan left the loop with the list vms: the cache is written and the
\* calling method runs on.
ScanDone(vms, rq, lst) ==
    /\ cache' = Cached(vms)
    /\ IF caller = "get_all_vms"
       THEN Finish([result EXCEPT !.kind = "list", !.vms = vms], rq, lst)
       ELSE IF caller = "find_vm"
       THEN Proceed(result, FindByName(vms, result.arg.s), rq, lst)
       ELSE Await(result, Append(rq, GetAzsRequest), lst, vms)

\* One pass of `while True` in get_all_vms.
ScanStep ==
    /\ pc = "scan"
    /\ \E o \in (IF current_page \in DOMAIN served
                 THEN {served[current_page]}
                 ELSE PageOutcomes(fleet, current_page)) :
         LET rq  == GetVmsRequest(Int_(current_page), Int_(PAGE_SIZE))
             r   == SendRequest(o)
             it  == LoopBody(all_vms, current_page, r)
             rq2 == IF Tracked THEN Append(reqs, rq) ELSE reqs
         IN  /\ served' = (current_page :> o) @@ served
             /\ IF it.next = "continue"
                THEN /\ all_vms' = IF Tracked THEN it.all_vms ELSE all_vms
                     /\ current_page' = it.page
                     /\ reqs' = rq2
                     /\ lap' = IF Tracked THEN lap ELSE ~lap
                     /\ last' = Sent(o, r)
                     /\ UNCHANGED <<cache, pc, caller, result>>
                ELSE IF it.next = "raise"
                THEN /\ Finish(OfRet(result, Raise(it.exc)), rq2, Sent(o, r))
                     /\ UNCHANGED cache
                ELSE ScanDone(it.all_vms, rq2, Sent(o, r))
    /\ UNCHANGED fleet
    /\ UNCHANGED signVars

Next ==
    \/ GetAvailabilityZones
    \/ \E n \in OptInts, sz \in OptInts : GetVms(n, sz)
    \/ \E use_cache \in BOOLEAN : GetAllVms(use_cache)
    \/ \E vm_id \in VmIds : GetVmDetails(vm_id)
    \/ \E vm_id \in VmIds : GetVmSnapshots(vm_id)
    \/ \E vm_id \in VmIds : GetVmBackups(vm_id)
    \/ \E identifier \in Identifiers : FindVm(identifier)
    \/ GenerateInfrastructureReport
    \/ Respond
    \/ ScanStep

Spec == Init /\ [][Next]_vars

\* The loop is sequential code: a pass that can run does run.
LiveSpec == Init /\ [][Next]_vars /\ WF_vars(ScanStep)

-----------------------------------------------------------------------------
(* The request signer _EC2RequestAuth. SHA-256 and HMAC-SHA256 are modelled *)
(* as injective constructors, a joined or formatted string as the tuple of *)
(* its parts.                                                              *)

\* hashlib.sha256(data).hexdigest()
Sha256Hex(data) == <<"sha256", data>>

\* hmac.new(key, message, hashlib.sha256).digest() / .hexdigest()
HmacSha256(key, message) == <<"hmac", key, message>>

\* _sign(key, message)
Sign_(key, message) == HmacSha256(key, message)

\* _get_signature_key(key, date_stamp, region_name, service_name)
GetSignatureKey(key, date_stamp, region_name, service_name) ==
    LET k_date    == Sign_(<<"AWS4", key>>, date_stamp)
        k_region  == Sign_(k_date, region_name)
        k_service == Sign_(k_region, service_name)
    IN  Sign_(k_service, "aws4_request")

Time(Y, M, D, h, m, sec) == [Y |-> Y, M |-> M, D |-> D, h |-> h, m |-> m, s |-> sec]

\* t.strftime('%Y%m%dT%H%M%SZ')
AmzDate(t) == <<t.Y, t.M, t.D, "T", t.h, t.m, t.s, "Z">>

\* t.strftime('%Ym%d'): the year, a literal m, the day of the month.
DateStamp(t) == <<t.Y, "m", t.D>>

\* canonical_uri = url.path if url.path else '/'
CanonicalUri(url) == IF url.path = "" THEN "/" ELSE url.path

\* Faulty variant: the standard scheme, which signs the query string.
CanonicalQuerystringStd(url) == url.query

\* canonical_querystring = ""
CanonicalQuerystring(url) == ""

\* sorted(['host', 'x-amz-date'])
SignedHeadersList == <<"host", "x-amz-date">>

\* body = r.body or b''; sha256 of its bytes
BodyHash(body) == Sha256Hex(IF body.none THEN "" ELSE body.s)

Algorithm == "AWS4-HMAC-SHA256"

\* _EC2RequestAuth.__call__(r) at UTC time t: the headers left on r.
AuthCall(auth, r, t) ==
    LET amzdate   == AmzDate(t)
        datestamp == DateStamp(t)
        host      == r.url.netloc
        headers   == [other |-> r.headers, XAmzDate |-> amzdate, Host |-> host]
        canonical_headers ==
            << <<"host", headers.Host>>, <<"x-amz-date", headers.XAmzDate>> >>
        canonical_request ==
            <<r.method, CanonicalUri(r.url), CanonicalQuerystring(r.url),
              canonical_headers, SignedHeadersList, BodyHash(r.body)>>
        credential_scope ==
            <<datestamp, auth.region, auth.service, "aws4_request">>
        string_to_sign ==
            <<Algorithm, amzdate, credential_scope, Sha256Hex(canonical_request)>>
        signing_key ==
            GetSignatureKey(auth.secret_key, datestamp, auth.region, auth.service)
        signature == HmacSha256(signing_key, string_to_sign)
    IN  [other |-> headers.other, XAmzDate |-> headers.XAmzDate,
         Host |-> headers.Host,
         Authorization |->
             [algorithm |-> Algorithm,
              credential |-> <<auth.access_key, credential_scope>>,
              signed_headers |-> SignedHeadersList,
              signature |-> signature]]

Auths ==
    {[access_key |-> "AK", secret_key |-> sk, region |-> "regionOne", service |-> "open-api"] :
        sk \in {"s1", "s2"}}

Urls ==
    [netloc : {"scp.example"},
     path   : {"", ServersPath},
     query  : {"", "page_num=0&page_size=100", "page_num=1&page_size=100"}]

Bodies == {[none |-> TRUE, s |-> ""], [none |-> FALSE, s |-> "{}"]}

\* Prepared requests, each with the signer instance of its session.
Prepared ==
    [auth : Auths, method : {"GET", "POST"}, url : Urls,
     headers : {"Accept"}, body : Bodies]

Times ==
    <<Time(2025, 11, 4, 12, 0, 0), Time(2025, 11, 4, 12, 0, 1),
      Time(2025, 12, 4, 12, 0, 0)>>

Unsigned == [set |-> FALSE, at |-> 0, headers |-> <<>>]

SignInit ==
    /\ cache = NoCache
    /\ pc = "idle"
    /\ caller = "none"
    /\ all_vms = <<>>
    /\ current_page = 0
    /\ served = <<>>
    /\ reqs = <<>>
    /\ lap = FALSE
    /\ fleet = "A"
    /\ last = NoLast
    /\ result = Result("none", NoneStr, FALSE, FALSE, "init", <<>>, JNull, "", NoReport)
    /\ sreqA \in Prepared
    /\ sreqB \in Prepared
    /\ sclock = 1
    /\ shdrA = Unsigned
    /\ shdrB = Unsigned

\* The wall clock moves on.
Tick ==
    /\ sclock < Len(Times)
    /\ sclock' = sclock + 1
    /\ UNCHANGED <<sreqA, sreqB, shdrA, shdrB>>
    /\ UNCHANGED clientVars

\* The session sends request A: its signer's __call__ runs now.
SignA ==
    /\ shdrA' = [set |-> TRUE, at |-> sclock,
                 headers |-> AuthCall(sreqA.auth, sreqA, Times[sclock])]
    /\ UNCHANGED <<sreqA, sreqB, sclock, shdrB>>
    /\ UNCHANGED clientVars

SignB ==
    /\ shdrB' = [set |-> TRUE, at |-> sclock,
                 headers |-> AuthCall(sreqB.auth, sreqB, Times[sclock])]
    /\ UNCHANGED <<sreqA, sreqB, sclock, shdrA>>
    /\ UNCHANGED clientVars

SignNext == Tick \/ SignA \/ SignB

SignSpec == SignInit /\ [][SignNext]_vars

-----------------------------------------------------------------------------
(* Properties. *)

\* The page requests a scan of n pages issues: page_num 0 .. n-1, page_size 100.
PageRequests(n) ==
    [k \in 1..n |-> Get(ServersPath, NoneStr, "", Int_(k - 1), Int_(100))]

RECURSIVE ServedRecords(_)
\* The records of the served pages 0 .. n-1, in page order.
ServedRecords(n) ==
    IF n = 0 THEN <<>> ELSE ServedRecords(n - 1) \o served[n - 1].body.recs

NumServed == Cardinality(DOMAIN served)

\* An uncached get_all_vms call has returned or raised.
UncachedScanEnded ==
    /\ pc = "idle"
    /\ result.op = "get_all_vms"
    /\ ~result.cached

\* The backend served pages 0 .. n-1, each a well-formed page whose token is
\* absent or names the following page, each but the last non-empty with a
\* token.
PagedBackend ==
    /\ NumServed >= 1
    /\ DOMAIN served = 0..(NumServed - 1)
    /\ \A k \in DOMAIN served :
         /\ served[k].net = "ok" /\ served[k].json
         /\ served[k].body.shape = "page"
         /\ served[k].body.tok \in {NoTok, IntTok(k + 1)}
         /\ k < NumServed - 1 =>
              served[k].body.recs # <<>> /\ served[k].body.tok = IntTok(k + 1)

LastServed == served[NumServed - 1].body

\* The served pages have the sizes 100, 100, 37, 0.
SizesOfTheExample ==
    /\ NumServed = 4
    /\ Len(served[0].body.recs) = 100 /\ Len(served[1].body.recs) = 100
    /\ Len(served[2].body.recs) = 37 /\ Len(served[3].body.recs) = 0

\* C1: an uncached get_all_vms against a backend that serves a finite run of
\* pages, each but the last non-empty with a next-page token, returns the
\* records of all pages concatenated in server order, with one get_vms
\* request per page from page 0 on with page size 100, the last of them for
\* the first page that is empty or has no token; pages of sizes
\* 100, 100, 37, 0 give 237 records in order and 4 requests.
C1_Pagination ==
    UncachedScanEnded /\ PagedBackend =>
        /\ result.kind = "list"
        /\ result.vms = ServedRecords(NumServed)
        /\ reqs = PageRequests(NumServed)
        /\ LastServed.recs = <<>> \/ LastServed.tok = NoTok
        /\ SizesOfTheExample =>
             /\ Len(result.vms) = 237
             /\ result.vms = NumberedRun(1, 237)
             /\ Len(reqs) = 4

C1_Witness ==
    /\ UncachedScanEnded /\ PagedBackend /\ SizesOfTheExample
    /\ fleet = "Big"
    /\ Len(result.vms) = 237
    /\ Len(reqs) = 4

\* C2: a completed get_all_vms leaves the list it returned in the cache,
\* whatever use_cache was; with the cache set, a get_all_vms(use_cache=True)
\* call returns the cached list at once, with no request and the cache
\* untouched; and the cache changes only at the end of a scan that was not
\* served from the cache.
C2_Step ==
    /\ result'.op = "get_all_vms" /\ result'.kind = "list" =>
         cache' = Cached(result'.vms)
    /\ pc = "idle" /\ cache.set /\ result'.op = "get_all_vms" /\ result'.use_cache =>
         /\ pc' = "idle"
         /\ result'.kind = "list"
         /\ result'.vms = cache.vms
         /\ reqs' = <<>>
         /\ cache' = cache
    /\ cache' # cache =>
         pc = "scan" /\ ~(result.op = "get_all_vms" /\ result.use_cache /\ cache.set)

C2_CacheServesLaterCalls == [][C2_Step]_vars

\* A cached call has been served from a cache that an earlier scan filled.
C2_Witness ==
    /\ pc = "idle"
    /\ result.op = "get_all_vms" /\ result.use_cache /\ result.cached
    /\ result.kind = "list" /\ result.vms = cache.vms
    /\ Len(cache.vms) >= 2
    /\ reqs = <<>>

\* A request to the VM list endpoint, and the detail lookup of one VM.
IsListRequest(rq) == rq.path = ServersPath /\ rq.id.none /\ rq.sub = ""

DetailLookup(id) == Get(ServersPath, id, "", NoInt, NoInt)

\* The identifier has exactly 5 hyphen-delimited segments.
FiveSegments(s) == Cardinality({i \in 1..Len(s) : s[i] = "-"}) = 4

FindEnded == pc = "idle" /\ result.op = "find_vm"

\* The positions of the VMs of the scanned or cached list that bear the name.
NameHits == {i \in 1..Len(cache.vms) : cache.vms[i].name = result.arg}

ListRequested == \E k \in 1..Len(reqs) : IsListRequest(reqs[k])

\* Id-shaped: one direct detail lookup and nothing else.
IdRoute == reqs = <<DetailLookup(result.arg)>>

\* Name-shaped, the call not ended by an exception: the first exact match is
\* looked up by its id after any list requests, or nothing matches, nothing
\* is looked up and the result is absent.
NameRoute ==
    IF NameHits = {}
    THEN /\ result.kind = "json" /\ result.val = JNull
         /\ \A k \in 1..Len(reqs) : IsListRequest(reqs[k])
    ELSE LET i == CHOOSE j \in NameHits : \A h \in NameHits : j <= h IN
         /\ reqs # <<>>
         /\ reqs[Len(reqs)] = DetailLookup(cache.vms[i].id)
         /\ \A k \in 1..(Len(reqs) - 1) : IsListRequest(reqs[k])
         /\ result.kind = "json" /\ result.val = last.ret.val

C3_Ended ==
    FindEnded =>
        IF FiveSegments(result.arg.s) THEN IdRoute
        ELSE /\ ListRequested <=> ~result.cached
             /\ ListRequested => reqs[1] = PageRequests(1)[1]
             /\ result.kind # "raise" => NameRoute

C3_Call ==
    pc = "idle" /\ result'.op = "find_vm" /\ ~FiveSegments(result'.arg.s) =>
        IF cache.set
        THEN result'.cached /\ pc' # "scan" /\ cache' = cache
        ELSE ~result'.cached /\ pc' = "scan"

C4_Original ==
    last.has =>
        /\ last.ret.kind = "ret"
        /\ last.outcome.net = "httperr" /\ last.outcome.json =>
             last.ret.val = last.outcome.body
        /\ last.outcome.net = "connfail" \/ ~last.outcome.json =>
             last.ret.val = JNull

VmOps == {"get_vm_details", "get_vm_snapshots", "get_vm_backups"}

SubOf(op) ==
    IF op = "get_vm_snapshots" THEN "/snapshots"
    ELSE IF op = "get_vm_backups" THEN "/backups"
    ELSE ""

C5_State ==
    result.op \in VmOps =>
        IF result.arg.none \/ result.arg.s = <<>>
        THEN /\ pc = "idle"
             /\ result.kind = "raise" /\ result.exc = "ValueError"
             /\ reqs = <<>>
             /\ ~last.has
        ELSE reqs = <<[method |-> "GET", path |-> ServersPath, id |-> result.arg,
                       sub |-> SubOf(result.op), page_num |-> NoInt,
                       page_size |-> NoInt]>>

C5_Step == result'.op \in VmOps => cache' = cache

\* C5: get_vm_details, get_vm_snapshots and get_vm_backups with an empty or
\* missing vm_id raise the invalid-argument error with no request issued and
\* the cache as it was; with a vm_id each issues exactly one GET to its path
\* with the id in it.
C5_VmIdRequired == []C5_State /\ [][C5_Step]_vars

C5_Witness ==
    /\ pc = "idle"
    /\ result.op = "get_vm_backups" /\ result.arg = Str(<<>>)
    /\ result.kind = "raise"
    /\ cache.set /\ cache.vms # <<>>
    /\ reqs = <<>>

\* generate_infrastructure_report has returned a report.
ReportEnded == pc = "idle" /\ result.op = "report" /\ result.kind = "report"

\* The zone list the report fetched, and the names in it.
FetchedZones == AzList(last.ret.val)

KnownZones ==
    {FetchedZones[i].name.s : i \in {j \in 1..Len(FetchedZones) :
        ~FetchedZones[j].name.none /\ FetchedZones[j].name.s # <<>>}}

\* The VM's az_name is absent, empty or not the name of a fetched zone.
Orphan(vm) ==
    vm.az_name.none \/ vm.az_name.s = <<>> \/ vm.az_name.s \notin KnownZones

RemoveAt(sq, i) == SubSeq(sq, 1, i - 1) \o SubSeq(sq, i + 1, Len(sq))

\* C6: a VM whose az_name is absent, empty or unknown to the fetched zone
\* list changes no total and does not fail the report: the report is the one
\* built from the list without that VM, as long as a VM is left.
C6_ZoneExclusion ==
    ReportEnded =>
        \A i \in 1..Len(cache.vms) :
            Orphan(cache.vms[i]) /\ Len(cache.vms) > 1 =>
                result.report = BuildReport(RemoveAt(cache.vms, i), FetchedZones)

\* A report over a list that holds an excluded VM amid counted ones.
C6_Witness ==
    /\ ReportEnded
    /\ \E i \in 1..Len(cache.vms) : Orphan(cache.vms[i])
    /\ \E i \in 1..Len(cache.vms) : cache.vms[i].az_name.none
    /\ result.report.overall_totals.total_vms >= 2

\* The VMs the report counts, in list order, and their memory_mb.
Counted == SelectSeq(cache.vms, LAMBDA vm : ~Orphan(vm))

Memories(vms) == [i \in 1..Len(vms) |-> vms[i].memory_mb]

RECURSIVE SumRange(_, _, _)
SumRange(ns, lo, hi) ==
    IF lo > hi THEN 0
    ELSE IF lo = hi THEN ns[lo]
    ELSE SumRange(ns, lo, (lo + hi) \div 2) + SumRange(ns, ((lo + hi) \div 2) + 1, hi)

Sum(ns) == SumRange(ns, 1, Len(ns))

Abs(n) == IF n < 0 THEN -n ELSE n

\* h hundredths of a GB is a nearest hundredth to mb / 1024 GB.
NearestHundredth(h, mb) == 2 * Abs(1024 * h - 100 * mb) <= 1024

ReportedMemory == result.report.overall_totals.total_provisioned.memory_gb

TheExample == Memories(Counted) = <<1536, 2048, 513>>

\* C7 as stated: for three VMs in a known zone with memory_mb 1536, 2048 and
\* 513 the reported provisioned memory is exactly 3.99 GB, and differs from
\* the sum of the three values rounded one by one.
C7_Original ==
    ReportEnded /\ TheExample =>
        /\ ReportedMemory = 399
        /\ ReportedMemory #
             Round2(Quot(1536), MbPerGb) + Round2(Quot(2048), MbPerGb)
                 + Round2(Quot(513), MbPerGb)

\* C7, amended: provisioned memory is accumulated at full precision and
\* rounded to 2 decimal places once, after all VMs are folded: the reported
\* total, overall and per zone, is a nearest hundredth to the exact sum of
\* memory_mb / 1024; for three VMs in a known zone with memory_mb 1536, 2048
\* and 513 it is exactly 4.0 GB.
C7_RoundedOnce ==
    ReportEnded =>
        /\ NearestHundredth(ReportedMemory, Sum(Memories(Counted)))
        /\ \A z \in DOMAIN result.report.by_availability_zone :
             NearestHundredth(
                 result.report.by_availability_zone[z].total_provisioned.ram_gb,
                 Sum(Memories(SelectSeq(Counted, LAMBDA vm : vm.az_name.s = z))))
        /\ TheExample => ReportedMemory = 400

C7_Witness == ReportEnded /\ TheExample /\ ReportedMemory = 400

\* The answer to the last page request was no well-formed page.
BadPage(o) == o.net # "ok" \/ ~o.json \/ o.body.shape # "page"

\* C8 as stated: when a page response of an uncached scan is malformed or
\* absent, get_all_vms does not fail: it stops, requests no further page and
\* returns the records of the pages before.
C8_Original ==
    UncachedScanEnded /\ last.has /\ BadPage(last.outcome) =>
        /\ result.kind = "list"
        /\ result.vms = ServedRecords(NumServed - 1)
        /\ reqs = PageRequests(NumServed)

\* C10 as stated: every scan ends after finitely many page requests,
\* whatever content and token the backend gives each page.
C10_Original == (pc = "scan" /\ caller = "get_all_vms") ~> (pc # "scan")

\* The two prepared requests agree in credentials, method, host, path, other
\* headers and body; their query strings are free.
SameButQuery(a, b) ==
    /\ a.auth = b.auth
    /\ a.method = b.method
    /\ a.url.netloc = b.url.netloc
    /\ a.url.path = b.url.path
    /\ a.headers = b.headers
    /\ a.body = b.body

SignedAtOnce == shdrA.set /\ shdrB.set /\ shdrA.at = shdrB.at

\* C9: the signer signs an empty canonical query string: two requests signed
\* at the same timestamp that agree in all but their query parameters get the
\* same X-Amz-Date and Authorization headers, and so do identical requests.
C9_QueryUnsigned ==
    SignedAtOnce /\ SameButQuery(sreqA, sreqB) =>
        /\ shdrA.headers.XAmzDate = shdrB.headers.XAmzDate
        /\ shdrA.headers.Authorization = shdrB.headers.Authorization

C9_Witness ==
    /\ SignedAtOnce /\ SameButQuery(sreqA, sreqB)
    /\ sreqA.url.query = "page_num=0&page_size=100"
    /\ sreqB.url.query = "page_num=1&page_size=100"
    /\ shdrA.headers.Authorization.signature = shdrB.headers.Authorization.signature

====
